---- MODULE Spec2Model ----
(***************************************************************************)
(* Model of the incremental image pipeline of scrapool:                    *)
(*   src/image_scraper/pipelines.py  (RateLimiter, EnhancedImagePipeline)  *)
(*   src/image_scraper/spiders/image_spider.py  (ImageSpider)              *)
(* A behaviour is a sequence of runs (processes).  Each run loads the      *)
(* ledger file image_status.json, crawls pages, downloads images, and at   *)
(* close_spider stages the new files, invokes waifu2x once, reconciles the *)
(* ledger, saves it and writes pipeline_stats.json.                        *)
(***************************************************************************)
EXTENDS Integers, Sequences, FiniteSets, TLC

(***************************************************************************)
(* Bounds of the model.                                                    *)
(***************************************************************************)
\* number of runs (processes) in a behaviour
MaxRuns == 2
\* pages handed to ImageSpider.parse in one run
MaxPages == 2
\* candidate image URLs found on one page
MaxPageLen == 2
\* items waiting between parse and the pipeline / downloads in flight
MaxQueue == 2
\* RateLimiter(max_requests, time_window): the constructor's parameters,
\* scaled down from the pipeline's (10, 60) so that the window fills
max_requests == 2
time_window == 3
\* calls of wait_if_needed and clock ticks in the limiter's own specification
MaxCalls == 5
MaxClock == 7

(***************************************************************************)
(* URLs.  A URL is its netloc (a sequence of labels) and the file name of  *)
(* its path.                                                               *)
(***************************************************************************)
UrlT == [netloc |-> <<"ticketsasa", "com">>, name |-> "a.jpg"]
UrlK == [netloc |-> <<"ticketsasa", "co", "ke">>, name |-> "a.jpg"]
UrlM == [netloc |-> <<"whats-on-mombasa", "com">>, name |-> "b.jpg"]
Urls == {UrlT, UrlK, UrlM}

\* `pat in s` of Python for dotted names, on label boundaries
Contains(s, pat) ==
    \E i \in 0..(Len(s) - Len(pat)) :
        \A j \in 1..Len(pat) : s[i + j] = pat[j]

\* item_completed: any(domain in url for domain in skip_enhancement_domains)
skip_enhancement_domains == {<<"ticketsasa", "com">>, <<"admin", "ticketsasa", "com">>}
IsSkipDomain(url) == \E d \in skip_enhancement_domains : Contains(url.netloc, d)

\* file_path: "full/" + domain prefix + sanitized original file name
file_path(url) ==
    LET domain == url.netloc
        domain_prefix ==
            IF Contains(domain, <<"whats-on-mombasa", "com">>) THEN "mombasa"
            ELSE IF Contains(domain, <<"ticketsasa", "com">>) THEN "ticketsasa"
            ELSE Head(domain)
    IN  [prefix |-> domain_prefix, name |-> url.name]

\* os.path.join(self.store.basedir, path)
FullPath(path) == [basedir |-> "IMAGES_STORE", rel |-> path]

\* os.path.basename(image_path)
Basename(full_path) == full_path.rel

\* status.get(key): a missing key reads as falsy
Get(status, key) == IF key \in DOMAIN status THEN status[key] ELSE FALSE

SeqToSet(s) == {s[i] : i \in 1..Len(s)}

(***************************************************************************)
(* The ledger file image_status.json as load_image_status can find it.     *)
(***************************************************************************)
NoLedger == [u \in {} |-> [downloaded |-> TRUE]]

LedgerStats(images) ==
    [total    |-> Cardinality(DOMAIN images),
     enhanced |-> Cardinality({u \in DOMAIN images : Get(images[u], "enhanced")}),
     failed   |-> Cardinality({u \in DOMAIN images : Get(images[u], "failed")})]

OkFile(images, stats) == [kind |-> "ok", images |-> images, stats |-> stats]

\* ledgers left by earlier runs
InitLedgers ==
    { NoLedger,
      [u \in {UrlT} |-> [downloaded |-> TRUE, enhanced |-> TRUE,
                         file_path |-> file_path(UrlT)]],
      [u \in {UrlK} |-> [downloaded |-> TRUE, enhanced |-> FALSE,
                         file_path |-> file_path(UrlK)]],
      [u \in {UrlM} |-> [downloaded |-> TRUE, enhanced |-> FALSE, failed |-> TRUE]] }

InitFiles ==
    { [kind |-> "missing"],          \* FileNotFoundError
      [kind |-> "not_json"],         \* json.JSONDecodeError
      [kind |-> "not_object"],       \* valid JSON, top level is a list
      [kind |-> "bad_record", keys |-> {UrlT}] }  \* "images": {url: null}
    \cup { OkFile(l, LedgerStats(l)) : l \in InitLedgers }

\* the identifiers the file holds
FileKeys(f) ==
    IF f.kind = "ok" THEN DOMAIN f.images
    ELSE IF f.kind = "bad_record" THEN f.keys
    ELSE {}

VARIABLES
    \* the world outside the process
    file,            \* image_status.json
    inputDir,        \* basenames in the waifu2x input directory
    clock,           \* datetime.now()
    run,             \* number of the current run
    pc,              \* where the run is
    \* ImageSpider
    found_image_urls, spider_previously_downloaded, pages_processed,
    \* EnhancedImagePipeline
    image_status, previously_downloaded, all_urls, new_images, stats,
    requests,        \* RateLimiter.requests
    \* the framework between spider and pipeline
    itemq,           \* items yielded by parse, not yet in the pipeline
    downloads,       \* request lists awaiting their results
    \* what the run did (observations, not program state)
    fileAtStart,     \* the file as the last started run found it
    startKeys,       \* identifiers in the file when the run loaded it
    seen,            \* URLs parse found on the pages of this run
    yielded,         \* URLs parse put into an item in this run
    requested,       \* URLs get_media_requests made a Request for in this run
    counted,         \* URL -> times it incremented stats.downloaded, all runs
    staged,          \* URL -> times its file was appended to new_images, all runs
    newRecs,         \* URL -> [enhanced, appended]: how item_completed recorded
                     \* each identifier that was new in this run
    preClose,        \* image_status when close_spider began
    tool,            \* the invocation: "none", "no_executable", "not_launched",
                     \* "launch_error", "running", "exit0", "nonzero", "hung"
    toolCalls,       \* subprocess.Popen calls in this run
    dirsTouched,     \* clean_waifu2x_folders ran in this run
    branch,          \* "none", "ENHANCED", "FAILED", "SKIPPED"
    saved,           \* save_image_status wrote the file in this run
    summary,         \* pipeline_stats.json as this run wrote it: <<>> or <<record>>
    admitted         \* instants at which wait_if_needed returned

vars == <<file, inputDir, clock, run, pc, found_image_urls,
          spider_previously_downloaded, pages_processed, image_status,
          previously_downloaded, all_urls, new_images, stats, requests, itemq,
          downloads, fileAtStart, startKeys, seen, yielded, requested, counted,
          staged, newRecs, preClose, tool, toolCalls, dirsTouched, branch, saved, summary,
          admitted>>


(***************************************************************************)
(* RateLimiter.wait_if_needed                                              *)
(***************************************************************************)
\* while self.requests and (now - self.requests[0]) > timedelta(time_window)
RECURSIVE CleanOld(_, _)
CleanOld(reqs, now) ==
    IF reqs # <<>> /\ (now - Head(reqs)) > time_window
    THEN CleanOld(Tail(reqs), now)
    ELSE reqs

\* the instant appended to the queue
Recorded(now, released) == now

\* [requests, released]: the queue afterwards and the instant the call returns
wait_if_needed(reqs, now) ==
    LET cleaned   == CleanOld(reqs, now)
        wait_time == IF Len(cleaned) >= max_requests
                     THEN Head(cleaned) + time_window - now
                     ELSE 0
        released  == IF wait_time > 0 THEN now + wait_time ELSE now
    IN  [requests |-> Append(cleaned, Recorded(now, released)),
         released |-> released]

(***************************************************************************)
(* load_image_status of the pipeline and of the spider                     *)
(***************************************************************************)
\* EnhancedImagePipeline.load_image_status: only FileNotFoundError and
\* json.JSONDecodeError are caught; data.get / status.get on a value that is
\* no dict raises AttributeError out of __init__ (the pipeline object is then
\* never built, so the fields read as __init__ had set them)
load_image_status(f) ==
    IF f.kind = "ok"
    THEN [raised |-> FALSE, image_status |-> f.images,
          previously_downloaded |-> DOMAIN f.images]
    ELSE IF f.kind \in {"missing", "not_json"}
    THEN [raised |-> FALSE, image_status |-> NoLedger, previously_downloaded |-> {}]
    ELSE [raised |-> TRUE, image_status |-> NoLedger, previously_downloaded |-> {}]

\* ImageSpider.load_image_status: reads only the keys of "images"
spider_load_image_status(f) ==
    IF f.kind \in {"ok", "bad_record"}
    THEN [raised |-> FALSE, previously_downloaded |-> FileKeys(f)]
    ELSE IF f.kind \in {"missing", "not_json"}
    THEN [raised |-> FALSE, previously_downloaded |-> {}]
    ELSE [raised |-> TRUE, previously_downloaded |-> {}]

(***************************************************************************)
(* ImageSpider.parse: the candidates of a page that are new                *)
(***************************************************************************)
\* variant: the spider forgets the ledger and filters on this run's finds only
IsNewImage_NoLedger(url, found, prev) == url \notin found

\* absolute_url not in self.found_image_urls and
\* absolute_url not in self.previously_downloaded
IsNewImage(url, found, prev) == url \notin found /\ url \notin prev

RECURSIVE parse(_, _, _, _)
parse(page, found, prev, image_urls) ==
    IF page = <<>> THEN [found_image_urls |-> found, image_urls |-> image_urls]
    ELSE IF IsNewImage(Head(page), found, prev)
         THEN parse(Tail(page), found \cup {Head(page)}, prev,
                    Append(image_urls, Head(page)))
         ELSE parse(Tail(page), found, prev, image_urls)

(***************************************************************************)
(* EnhancedImagePipeline.get_media_requests                                *)
(***************************************************************************)
\* if url not in self.image_status
IsUntracked(url, ledger) == url \notin DOMAIN ledger

\* L = [reqs, requests, clock, admitted]
RECURSIVE get_media_requests(_, _, _)
get_media_requests(urls, ledger, L) ==
    IF urls = <<>> THEN L
    ELSE IF IsUntracked(Head(urls), ledger)
         THEN LET w == wait_if_needed(L.requests, L.clock)
              IN  get_media_requests(Tail(urls), ledger,
                      [reqs     |-> Append(L.reqs, Head(urls)),
                       requests |-> w.requests,
                       \* time.sleep(uniform(0.5, 1.5)) after the limiter
                       clock    |-> w.released + 1,
                       admitted |-> Append(L.admitted, w.released)])
         ELSE get_media_requests(Tail(urls), ledger, L)

(***************************************************************************)
(* EnhancedImagePipeline.item_completed                                    *)
(***************************************************************************)
\* variant: only the first result of the item is looked at
skip_enhancement_FirstOnly(results) ==
    results # <<>> /\ results[1].ok /\ IsSkipDomain(results[1].url)

\* first loop: one flag for the whole item
skip_enhancement(results) ==
    \E i \in 1..Len(results) : results[i].ok /\ IsSkipDomain(results[i].url)

\* if url not in self.image_status
IsNewDownload(url, ledger) == url \notin DOMAIN ledger

\* second loop; S = [image_status, new_images, stats, counted, staged, newRecs]
RECURSIVE item_completed_loop(_, _, _)
item_completed_loop(results, skip, S) ==
    IF results = <<>> THEN S
    ELSE LET x == Head(results)
             full_path == FullPath(x.path)
         IN  IF x.ok /\ IsNewDownload(x.url, S.image_status)
             THEN item_completed_loop(Tail(results), skip,
                    [image_status |->
                        [u \in DOMAIN S.image_status \cup {x.url} |->
                            IF u = x.url
                            THEN [downloaded |-> TRUE, enhanced |-> skip,
                                  file_path |-> x.path]
                            ELSE S.image_status[u]],
                     new_images |-> IF ~skip THEN Append(S.new_images, full_path)
                                    ELSE S.new_images,
                     stats    |-> [S.stats EXCEPT !.downloaded = @ + 1],
                     counted  |-> [S.counted EXCEPT ![x.url] = @ + 1],
                     staged   |-> IF ~skip THEN [S.staged EXCEPT ![x.url] = @ + 1]
                                  ELSE S.staged,
                     newRecs  |-> [u \in DOMAIN S.newRecs \cup {x.url} |->
                                    IF u = x.url
                                    THEN [enhanced |-> skip, appended |-> ~skip]
                                    ELSE S.newRecs[u]]])
             ELSE item_completed_loop(Tail(results), skip, S)

item_completed(results, S) ==
    item_completed_loop(results, skip_enhancement(results), S)

(***************************************************************************)
(* EnhancedImagePipeline.close_spider: reconciliation after run_waifu2x    *)
(***************************************************************************)
\* variant: only the first entry of the batch is matched
InBatch_First(status, batch) ==
    "file_path" \in DOMAIN status /\ batch # <<>>
        /\ FullPath(status.file_path) = batch[1]

\* full_path = os.path.join(self.store.basedir, status['file_path'])
\* if full_path in self.new_images
InBatch(status, batch) ==
    "file_path" \in DOMAIN status /\ FullPath(status.file_path) \in SeqToSet(batch)

\* the record of a batch entry after run_waifu2x returned ok
Reconciled(status, ok) == [status EXCEPT !.enhanced = ok]

\* variant: the batch is emptied once the records are marked
reconcile_Clearing(ledger, batch, st, ok) ==
    [image_status |-> [u \in DOMAIN ledger |->
                          IF InBatch(ledger[u], batch)
                          THEN Reconciled(ledger[u], ok) ELSE ledger[u]],
     stats |-> IF ok THEN [st EXCEPT !.enhanced = Len(batch)]
               ELSE [st EXCEPT !.failed = Len(batch)],
     new_images |-> <<>>]

\* [image_status, stats, new_images] after the if/else on run_waifu2x();
\* self.new_images is read, never assigned
reconcile(ledger, batch, st, ok) ==
    [image_status |-> [u \in DOMAIN ledger |->
                          IF InBatch(ledger[u], batch)
                          THEN Reconciled(ledger[u], ok) ELSE ledger[u]],
     stats |-> IF ok THEN [st EXCEPT !.enhanced = Len(batch)]
               ELSE [st EXCEPT !.failed = Len(batch)],
     new_images |-> batch]

\* variant: the keys are written in another form than the one looked up
\* (the normalize_url of the superseded save_image_status)
normalize_url(url) == [netloc |-> url.netloc, name |-> "normalized"]
save_image_status_Normalized(ledger) ==
    LET keys == {normalize_url(u) : u \in DOMAIN ledger}
        normalized_status ==
            [k \in keys |-> ledger[CHOOSE u \in DOMAIN ledger : normalize_url(u) = k]]
    IN  OkFile(normalized_status, LedgerStats(normalized_status))

\* variant: the summary block counts the records that have the key
save_image_status_KeyCount(ledger) ==
    OkFile(ledger,
           [total    |-> Cardinality(DOMAIN ledger),
            enhanced |-> Cardinality({u \in DOMAIN ledger : "enhanced" \in DOMAIN ledger[u]}),
            failed   |-> Cardinality({u \in DOMAIN ledger : "failed" \in DOMAIN ledger[u]})])

\* save_image_status: the summary block is computed from the records
save_image_status(ledger) == OkFile(ledger, LedgerStats(ledger))


(***************************************************************************)
(* Initial state: before the first run starts.                             *)
(***************************************************************************)
NoStats == [downloaded |-> 0, enhanced |-> 0, failed |-> 0]
NoCount == [u \in Urls |-> 0]
NoRecs  == [u \in {} |-> [enhanced |-> FALSE, appended |-> FALSE]]

\* the state of a process before ImageSpider() and EnhancedImagePipeline()
Fresh ==
    /\ found_image_urls = {} /\ spider_previously_downloaded = {}
    /\ pages_processed = 0
    /\ image_status = NoLedger /\ previously_downloaded = {}
    /\ all_urls = {} /\ new_images = <<>> /\ stats = NoStats
    /\ requests = <<>> /\ itemq = <<>> /\ downloads = <<>>
    /\ startKeys = {} /\ seen = {} /\ yielded = {} /\ requested = {} /\ newRecs = NoRecs
    /\ preClose = NoLedger /\ tool = "none" /\ toolCalls = 0
    /\ dirsTouched = FALSE /\ branch = "none" /\ saved = FALSE
    /\ summary = <<>> /\ admitted = <<>>

Init ==
    /\ file \in InitFiles
    /\ fileAtStart = file
    /\ inputDir = {}
    /\ clock = 0
    /\ run = 1
    /\ pc = "start"
    /\ counted = NoCount /\ staged = NoCount
    /\ Fresh

(***************************************************************************)
(* Actions of a run.                                                       *)
(***************************************************************************)
\* ImageSpider.__init__ and EnhancedImagePipeline.__init__: both load the file
StartRun ==
    /\ pc = "start"
    /\ LET sp == spider_load_image_status(file)
           pl == load_image_status(file)
       IN  /\ spider_previously_downloaded' = sp.previously_downloaded
           /\ image_status' = pl.image_status
           /\ previously_downloaded' = pl.previously_downloaded
           /\ pc' = IF sp.raised \/ pl.raised THEN "load_raised" ELSE "crawl"
    /\ fileAtStart' = file
    /\ startKeys' = FileKeys(file)
    /\ UNCHANGED <<file, inputDir, clock, run, found_image_urls, pages_processed,
                   all_urls, new_images, stats, requests, itemq, downloads,
                   seen, yielded, requested, counted, staged, newRecs, preClose, tool,
                   toolCalls, dirsTouched, branch, saved, summary, admitted>>

\* pages: the absolute image URLs a response holds, in document order
Pages == UNION {[1..n -> Urls] : n \in 1..MaxPageLen}

\* if self.pages_processed > 50: return
PageLimit == 50

\* ImageSpider.parse on one response
Parse ==
    /\ pc = "crawl"
    /\ pages_processed < MaxPages
    /\ Len(itemq) < MaxQueue
    /\ \E page \in Pages :
         LET r == parse(page, found_image_urls, spider_previously_downloaded, <<>>)
         IN  /\ pages_processed' = pages_processed + 1
             /\ IF pages_processed + 1 > PageLimit
                THEN UNCHANGED <<found_image_urls, itemq, seen, yielded>>
                ELSE /\ found_image_urls' = r.found_image_urls
                     /\ itemq' = IF r.image_urls # <<>>
                                 THEN Append(itemq, r.image_urls) ELSE itemq
                     /\ seen' = seen \cup SeqToSet(page)
                     /\ yielded' = yielded \cup SeqToSet(r.image_urls)
    /\ UNCHANGED <<file, inputDir, clock, run, pc, spider_previously_downloaded,
                   image_status, previously_downloaded, all_urls, new_images,
                   stats, requests, downloads, fileAtStart, startKeys, requested, counted,
                   staged, newRecs, preClose, tool, toolCalls, dirsTouched,
                   branch, saved, summary, admitted>>

\* the pipeline takes the next item: get_media_requests
GetMediaRequests ==
    /\ pc = "crawl"
    /\ itemq # <<>>
    /\ Len(downloads) < MaxQueue
    /\ LET urls == Head(itemq)
           L == get_media_requests(urls, image_status,
                    [reqs |-> <<>>, requests |-> requests, clock |-> clock,
                     admitted |-> admitted])
       IN  /\ all_urls' = all_urls \cup SeqToSet(urls)
           /\ requests' = L.requests
           /\ clock' = L.clock
           /\ admitted' = L.admitted
           /\ requested' = requested \cup SeqToSet(L.reqs)
           /\ downloads' = Append(downloads, L.reqs)
    /\ itemq' = Tail(itemq)
    /\ UNCHANGED <<file, inputDir, run, pc, found_image_urls,
                   spider_previously_downloaded, pages_processed, image_status,
                   previously_downloaded, new_images, stats, fileAtStart, startKeys, seen, yielded,
                   counted, staged, newRecs, preClose, tool, toolCalls,
                   dirsTouched, branch, saved, summary>>

\* the downloads of one item end, each ok or failed: item_completed
ItemCompleted ==
    /\ pc = "crawl"
    /\ \E i \in 1..Len(downloads) : \E okset \in SUBSET SeqToSet(downloads[i]) :
         LET reqs == downloads[i]
             results == [k \in 1..Len(reqs) |->
                            [ok |-> reqs[k] \in okset, url |-> reqs[k],
                             path |-> file_path(reqs[k])]]
             S == item_completed(results,
                      [image_status |-> image_status, new_images |-> new_images,
                       stats |-> stats, counted |-> counted, staged |-> staged,
                       newRecs |-> newRecs])
         IN  /\ image_status' = S.image_status
             /\ new_images' = S.new_images
             /\ stats' = S.stats
             /\ counted' = S.counted
             /\ staged' = S.staged
             /\ newRecs' = S.newRecs
             /\ downloads' = SubSeq(downloads, 1, i - 1)
                                \o SubSeq(downloads, i + 1, Len(downloads))
    /\ UNCHANGED <<file, inputDir, clock, run, pc, found_image_urls,
                   spider_previously_downloaded, pages_processed,
                   previously_downloaded, all_urls, requests, itemq, fileAtStart, startKeys,
                   seen, yielded, requested, preClose, tool, toolCalls, dirsTouched,
                   branch, saved, summary, admitted>>


\* variant: the enhancement phase runs whatever the batch holds
HasBatch_Always(batch) == TRUE

\* if self.new_images:
HasBatch(batch) == batch # <<>>

\* close_spider up to the launch of waifu2x: clean_waifu2x_folders, the
\* copy_to_waifu2x loop (its result is not looked at) and run_waifu2x, which
\* returns True without launching when the input directory is empty
CloseSpider ==
    /\ pc = "crawl"
    /\ itemq = <<>> /\ downloads = <<>>
    /\ preClose' = image_status
    /\ IF ~HasBatch(new_images)
       THEN /\ branch' = "SKIPPED"
            /\ pc' = "save"
            /\ UNCHANGED <<inputDir, image_status, new_images, stats, tool,
                           toolCalls, dirsTouched>>
       ELSE \E exe \in BOOLEAN, launch \in {"ok", "error"} :
            \E copied \in SUBSET SeqToSet(new_images) :
              \* copy_to_waifu2x returns False when the executable is missing
              /\ ~exe => copied = {}
              /\ LET staging == {Basename(p) : p \in copied}
                     r == reconcile(image_status, new_images, stats,
                                    staging = {})
                 IN  /\ dirsTouched' = TRUE
                     /\ inputDir' = staging
                     /\ IF staging = {}
                        THEN \* "No new images to enhance": return True
                             /\ launch = "ok"
                             /\ tool' = IF exe THEN "not_launched" ELSE "no_executable"
                             /\ toolCalls' = toolCalls
                             /\ image_status' = r.image_status
                             /\ stats' = r.stats
                             /\ new_images' = r.new_images
                             /\ branch' = "ENHANCED"
                             /\ pc' = "save"
                        ELSE IF launch = "error"
                        THEN \* subprocess.Popen raises: except Exception
                             /\ tool' = "launch_error"
                             /\ toolCalls' = toolCalls
                             /\ image_status' = r.image_status
                             /\ stats' = r.stats
                             /\ new_images' = r.new_images
                             /\ branch' = "FAILED"
                             /\ pc' = "save"
                        ELSE /\ tool' = "running"
                             /\ toolCalls' = toolCalls + 1
                             /\ branch' = branch
                             /\ pc' = "running"
                             /\ UNCHANGED <<image_status, new_images, stats>>
    /\ UNCHANGED <<file, clock, run, found_image_urls,
                   spider_previously_downloaded, pages_processed,
                   previously_downloaded, all_urls, requests, itemq, downloads,
                   fileAtStart, startKeys, seen, yielded, requested, counted,
                   staged, newRecs, saved, summary, admitted>>

\* process.communicate() returns: the if/else on process.returncode == 0
ToolReturns ==
    /\ pc = "running"
    /\ \E rc \in {"exit0", "nonzero"} :
         LET r == reconcile(image_status, new_images, stats, rc = "exit0")
         IN  /\ tool' = rc
             /\ image_status' = r.image_status
             /\ stats' = r.stats
             /\ new_images' = r.new_images
             /\ branch' = IF rc = "exit0" THEN "ENHANCED" ELSE "FAILED"
    /\ pc' = "save"
    /\ UNCHANGED <<file, inputDir, clock, run, found_image_urls,
                   spider_previously_downloaded, pages_processed,
                   previously_downloaded, all_urls, requests, itemq,
                   downloads, fileAtStart, startKeys, seen, yielded, requested, counted, staged,
                   newRecs, preClose, toolCalls, dirsTouched, saved, summary,
                   admitted>>

\* process.communicate() never returns: Popen is given no timeout
ToolHangs ==
    /\ pc = "running"
    /\ tool' = "hung"
    /\ pc' = "hung"
    /\ UNCHANGED <<file, inputDir, clock, run, found_image_urls,
                   spider_previously_downloaded, pages_processed, image_status,
                   previously_downloaded, all_urls, new_images, stats, requests,
                   itemq, downloads, fileAtStart, startKeys, seen, yielded,
                   requested, counted, staged, newRecs, preClose, toolCalls,
                   dirsTouched, branch, saved, summary, admitted>>

\* save_image_status: open(status_file, 'w') truncates the file in place
Truncated == [kind |-> "not_json"]

SaveOpen ==
    /\ pc = "save"
    /\ file' = Truncated
    /\ pc' = "saving"
    /\ UNCHANGED <<inputDir, clock, run, found_image_urls,
                   spider_previously_downloaded, pages_processed, image_status,
                   previously_downloaded, all_urls, new_images, stats, requests,
                   itemq, downloads, fileAtStart, startKeys, seen, yielded,
                   requested, counted, staged, newRecs, preClose, tool,
                   toolCalls, dirsTouched, branch, saved, summary, admitted>>

\* save_image_status: json.dump writes the ledger and the file is closed
SaveImageStatus ==
    /\ pc = "saving"
    /\ file' = save_image_status(image_status)
    /\ saved' = TRUE
    /\ pc' = "summary"
    /\ UNCHANGED <<inputDir, clock, run, found_image_urls,
                   spider_previously_downloaded, pages_processed, image_status,
                   previously_downloaded, all_urls, new_images, stats, requests,
                   itemq, downloads, fileAtStart, startKeys, seen, yielded, requested, counted,
                   staged, newRecs, preClose, tool, toolCalls, dirsTouched,
                   branch, summary, admitted>>

\* success_rate, in percent
success_rate(st) ==
    IF st.downloaded > 0 THEN (st.enhanced * 100) \div st.downloaded ELSE 0

\* close_spider: pipeline_stats.json
WriteSummary ==
    /\ pc = "summary"
    /\ summary' = << [total_urls   |-> Cardinality(all_urls),
                      downloaded   |-> stats.downloaded,
                      enhanced     |-> stats.enhanced,
                      failed       |-> stats.failed,
                      success_rate |-> success_rate(stats)] >>
    /\ pc' = "done"
    /\ UNCHANGED <<file, inputDir, clock, run, found_image_urls,
                   spider_previously_downloaded, pages_processed, image_status,
                   previously_downloaded, all_urls, new_images, stats, requests,
                   itemq, downloads, fileAtStart, startKeys, seen, yielded, requested, counted,
                   staged, newRecs, preClose, tool, toolCalls, dirsTouched,
                   branch, saved, admitted>>

\* the process ends; the next run is a new process over the same files
NewProcess ==
    /\ run < MaxRuns
    /\ run' = run + 1
    /\ pc' = "start"
    /\ found_image_urls' = {} /\ spider_previously_downloaded' = {}
    /\ pages_processed' = 0
    /\ image_status' = NoLedger /\ previously_downloaded' = {}
    /\ all_urls' = {} /\ new_images' = <<>> /\ stats' = NoStats
    /\ requests' = <<>> /\ itemq' = <<>> /\ downloads' = <<>>
    /\ startKeys' = {} /\ seen' = {} /\ yielded' = {} /\ requested' = {} /\ newRecs' = NoRecs
    /\ preClose' = NoLedger /\ tool' = "none" /\ toolCalls' = 0
    /\ dirsTouched' = FALSE /\ branch' = "none" /\ saved' = FALSE
    /\ summary' = <<>> /\ admitted' = <<>>
    /\ UNCHANGED <<file, inputDir, clock, fileAtStart, counted, staged>>

ProcessExit ==
    /\ pc \in {"done", "load_raised"}
    /\ NewProcess

\* the process dies between open() and the end of json.dump
Crash ==
    /\ pc = "saving"
    /\ NewProcess

Next ==
    \/ StartRun
    \/ Parse
    \/ GetMediaRequests
    \/ ItemCompleted
    \/ CloseSpider
    \/ ToolReturns
    \/ ToolHangs
    \/ SaveOpen
    \/ SaveImageStatus
    \/ WriteSummary
    \/ ProcessExit

Spec == Init /\ [][Next]_vars

\* the runs when a process can die in the middle of the save
NextCrash == Next \/ Crash

SpecCrash == Init /\ [][NextCrash]_vars

(***************************************************************************)
(* The rate limiter on its own: one caller, calls at any instants.         *)
(***************************************************************************)
InitRL ==
    /\ Init
    /\ file = [kind |-> "missing"]

\* time passes between two calls
Tick ==
    /\ clock < MaxClock
    /\ clock' = clock + 1
    /\ UNCHANGED <<file, inputDir, run, pc, found_image_urls,
                   spider_previously_downloaded, pages_processed, image_status,
                   previously_downloaded, all_urls, new_images, stats, requests,
                   itemq, downloads, fileAtStart, startKeys, seen, yielded, requested, counted,
                   staged, newRecs, preClose, tool, toolCalls, dirsTouched,
                   branch, saved, summary, admitted>>

\* one call of wait_if_needed; the caller goes on when it returns
WaitIfNeeded ==
    /\ Len(admitted) < MaxCalls
    /\ LET w == wait_if_needed(requests, clock)
       IN  /\ requests' = w.requests
           /\ clock' = w.released
           /\ admitted' = Append(admitted, w.released)
    /\ UNCHANGED <<file, inputDir, run, pc, found_image_urls,
                   spider_previously_downloaded, pages_processed, image_status,
                   previously_downloaded, all_urls, new_images, stats, itemq,
                   downloads, fileAtStart, startKeys, seen, yielded, requested, counted, staged,
                   newRecs, preClose, tool, toolCalls, dirsTouched, branch,
                   saved, summary>>

NextRL == Tick \/ WaitIfNeeded

SpecRL == InitRL /\ [][NextRL]_vars


(***************************************************************************)
(* Properties.                                                             *)
(***************************************************************************)
\* close_spider has reconciled the ledger
Reconciliation == pc \in {"save", "saving", "summary", "done"}

\* the identifiers whose file item_completed put into the Pending Batch
BatchIds == {u \in DOMAIN newRecs : newRecs[u].appended}

\* C1: when the batch is not empty and the tool exits nonzero or cannot be
\* launched, every record of a batch entry ends with failed = true and with
\* the enhanced flag it had before reconciliation.
C1_FailureMarksBatchFailed ==
    (Reconciliation /\ tool \in {"nonzero", "launch_error", "no_executable"}) =>
        \A u \in BatchIds :
            /\ Get(image_status[u], "failed") = TRUE
            /\ image_status[u].enhanced = preClose[u].enhanced

\* C2: when the batch is not empty and the tool exits with status zero, every
\* record of a batch entry is enhanced = true after reconciliation, in memory
\* and in the ledger the run saves.
C2_SuccessMarksBatchEnhanced ==
    (Reconciliation /\ tool = "exit0") =>
        \A u \in BatchIds :
            /\ image_status[u].enhanced = TRUE
            /\ saved => (file.kind = "ok" /\ file.images[u].enhanced = TRUE)

C2_Witness ==
    /\ pc = "done" /\ tool = "exit0"
    /\ Cardinality(BatchIds) >= 2
    /\ Len(new_images) >= 2

\* the calls admitted in the window of time_window seconds that ends at t
AdmittedIn(t) ==
    {j \in 1..Len(admitted) : admitted[j] > t - time_window /\ admitted[j] <= t}

\* C3: in any trailing interval of time_window seconds no more than
\* max_requests calls of wait_if_needed are admitted.
C3_RateLimiterBound ==
    \A i \in 1..Len(admitted) :
        Cardinality(AdmittedIn(admitted[i])) <= max_requests

\* C4: over all runs, each identifier increments the downloaded counter at
\* most once and is appended to the Pending Batch at most once.
C4_NoDoubleCountingOrStaging ==
    \A u \in Urls : counted[u] <= 1 /\ staged[u] <= 1

\* a later run that downloads again while the ledger it loaded holds an
\* identifier staged by an earlier run whose enhancement did not succeed
C4_Witness ==
    /\ run >= 2 /\ pc = "done"
    /\ stats.downloaded >= 1
    /\ \E u \in startKeys :
          /\ staged[u] = 1
          /\ u \in seen
          /\ ~image_status[u].enhanced

\* C5: an identifier of the ledger loaded at the start of a run is never put
\* into an item by parse nor requested by get_media_requests in that run, and
\* the ledger keeps its record to the end of the run.
C5_IdempotentDiscovery ==
    /\ startKeys \cap yielded = {}
    /\ startKeys \cap requested = {}
    /\ pc \in {"crawl", "running", "save", "summary", "done"} =>
          startKeys \subseteq DOMAIN image_status
    /\ saved => startKeys \subseteq FileKeys(file)

C5_Witness ==
    /\ pc = "done"
    /\ startKeys \cap seen # {}
    /\ requested # {}

C7_NonExemptIsStaged ==
    \A u \in DOMAIN newRecs :
        ~IsSkipDomain(u) =>
            /\ newRecs[u].appended
            /\ newRecs[u].enhanced = FALSE
            /\ counted[u] >= 1

\* C8: with an empty Pending Batch close_spider does not touch the staging
\* directories, never invokes the tool, changes no flag of any record, and
\* ends SKIPPED with the ledger saved and the summary written.
C8_EmptyBatchShortCircuit ==
    (Reconciliation /\ new_images = <<>>) =>
        /\ ~dirsTouched
        /\ toolCalls = 0 /\ tool = "none"
        /\ image_status = preClose
        /\ branch = "SKIPPED"
        /\ pc = "done" =>
              /\ saved /\ file.kind = "ok" /\ file.images = image_status
              /\ summary # <<>>

C8_Witness ==
    /\ pc = "done"
    /\ new_images = <<>>
    /\ stats.downloaded >= 1

\* C9: in a ledger file written by save_image_status, stats.total, enhanced
\* and failed are the number of records, of records with enhanced = true and
\* of records with failed = true, of the records as they are at the save.
C9_CounterConsistency ==
    saved =>
        /\ file.kind = "ok"
        /\ file.images = image_status
        /\ file.stats.total = Cardinality(DOMAIN image_status)
        /\ file.stats.enhanced =
              Cardinality({u \in DOMAIN image_status :
                              "enhanced" \in DOMAIN image_status[u]
                                  /\ image_status[u].enhanced = TRUE})
        /\ file.stats.failed =
              Cardinality({u \in DOMAIN image_status :
                              "failed" \in DOMAIN image_status[u]
                                  /\ image_status[u].failed = TRUE})

C9_Witness ==
    /\ saved /\ branch \in {"ENHANCED", "FAILED"}
    /\ file.stats.total >= 3
    /\ file.stats.enhanced >= 1
    /\ file.stats.failed >= 1

\* C10: whatever the ledger file holds at start (missing, not JSON, JSON of
\* another shape), load_image_status returns without raising, and in each of
\* these cases the ledger and the previously_downloaded sets are empty.
C10_LoadFailsSoft ==
    /\ pc # "load_raised"
    /\ (pc = "crawl" /\ pages_processed = 0 /\ file.kind # "ok") =>
          /\ image_status = NoLedger
          /\ previously_downloaded = {}
          /\ spider_previously_downloaded = {}


\* close_spider has begun and has not yet written pipeline_stats.json
Closing == pc \in {"running", "hung", "save", "saving", "summary"}

\* the rest of close_spider: what can still lead to the summary
CloseSpiderStep == ToolReturns \/ SaveOpen \/ SaveImageStatus \/ WriteSummary

\* C11: every execution of close_spider goes on to write the run summary,
\* whatever staging and the tool do: it is never left with the summary
\* unwritten and no step of close_spider able to run.
C11_SummaryAlwaysWritten ==
    (Closing /\ summary = <<>>) => ENABLED CloseSpiderStep

\* the batch entries whose copy into the input directory did not succeed
CopyFailed == {p \in SeqToSet(new_images) : Basename(p) \notin inputDir}

\* C12: a file whose copy to the input directory failed is excluded from the
\* batch: the outcome of the invocation is not applied to its record and it
\* is not counted in the run's enhanced counter.
C12_FailedCopyExcluded ==
    (Reconciliation /\ tool \in {"exit0", "nonzero"}) =>
        /\ \A u \in BatchIds :
              FullPath(file_path(u)) \in CopyFailed =>
                  image_status[u] = preClose[u]
        /\ stats.enhanced <= Len(new_images) - Cardinality(CopyFailed)

\* C13 as stated: once reconciliation is done the Pending Batch is empty.
C13_BatchCleared == Reconciliation => new_images = <<>>

\* C13, amended: close_spider leaves the Pending Batch as it found it, one
\* entry for each identifier staged in the run; only a new process starts
\* with an empty batch.
C13_BatchKept ==
    /\ Reconciliation =>
          /\ Len(new_images) = Cardinality(BatchIds)
          /\ SeqToSet(new_images) = {FullPath(file_path(u)) : u \in BatchIds}
    /\ pc = "start" => new_images = <<>>

C13_Witness ==
    /\ pc = "done"
    /\ branch \in {"ENHANCED", "FAILED"}
    /\ tool \in {"exit0", "nonzero"}
    /\ Len(new_images) >= 2

\* C14: the summary reports downloaded = records created in the run,
\* enhanced = those that ended enhanced = true, failed = those that ended
\* failed = true, success_rate = enhanced / downloaded in percent, 0 when
\* nothing was downloaded.
C14_SummaryCounters ==
    pc = "done" =>
        LET s == summary[1]
            mine == DOMAIN newRecs
        IN  /\ s.downloaded = Cardinality(mine)
            /\ s.enhanced =
                  Cardinality({u \in mine : Get(image_status[u], "enhanced")})
            /\ s.failed =
                  Cardinality({u \in mine : Get(image_status[u], "failed")})
            /\ s.success_rate =
                  IF s.downloaded = 0 THEN 0
                  ELSE (s.enhanced * 100) \div s.downloaded

\* C15: total_urls of the summary is the number of distinct identifiers the
\* crawl observed in the run, those filtered before any fetch included.
C15_TotalUrlsSeen ==
    pc = "done" => summary[1].total_urls = Cardinality(seen)

\* C16: at every instant the ledger file is the complete ledger the run
\* found or the complete ledger the run saved, so that a new process never
\* finds a file cut short by an interrupted save.
C16_AtomicWriteBack ==
    /\ pc # "start" =>
          \/ file = fileAtStart
          \/ file.kind = "ok" /\ file.images = image_status
    /\ pc = "start" => (file = fileAtStart \/ file.kind = "ok")

\* C17: with a non-empty batch the tool is invoked exactly once, after the
\* staging directories were cleaned, and the ENHANCED outcome is reached only
\* when that invocation took place and returned exit status zero.
C17_GenuineSuccess ==
    /\ toolCalls <= 1
    /\ toolCalls = 1 => dirsTouched
    /\ (Reconciliation /\ new_images # <<>>) => toolCalls = 1
    /\ branch = "ENHANCED" => (tool = "exit0" /\ toolCalls = 1)

\* C18: the queue holds, in nondecreasing order, the instants at which the
\* most recent calls were admitted (a blocked call its release), and no more
\* than max_requests of them.
C18_QueueBookkeeping ==
    /\ Len(requests) <= max_requests
    /\ \A i \in 1..(Len(requests) - 1) : requests[i] <= requests[i + 1]
    /\ Len(requests) <= Len(admitted)
    /\ requests = SubSeq(admitted, Len(admitted) - Len(requests) + 1,
                         Len(admitted))

\* C19: close_spider changes the flags of no record but those of the
\* identifiers staged in the run, also when two identifiers share a stored
\* path; so a record enhanced = true in the ledger a run loaded is not
\* enhanced = false in the ledger it saves.
C19_ReconciliationFrame ==
    /\ Reconciliation =>
          \A u \in DOMAIN image_status \ BatchIds : image_status[u] = preClose[u]
    /\ (saved /\ fileAtStart.kind = "ok") =>
          \A u \in DOMAIN fileAtStart.images :
              Get(fileAtStart.images[u], "enhanced") =>
                  Get(file.images[u], "enhanced")

====
